---- MODULE Spec2Model ----
(***************************************************************************)
(* A model of the local RAG tool (package rag): the rebuild coordinator of *)
(* rag/server.py with its request handlers and background rebuild tasks,   *)
(* the index build / load functions of rag/index.py, the scan and the      *)
(* chunker (rag/ingest.py, rag/chunking.py) and the retriever              *)
(* (rag/retrieve.py).                                                      *)
(*                                                                         *)
(* Strings that the code transforms (folder paths, chunk texts) are tuples *)
(* of one-character strings; all other strings are TLA+ strings.           *)
(***************************************************************************)
EXTENDS Integers, Sequences, FiniteSets, TLC

\* Optional values: Python's None is the empty tuple, a present value x is <<x>>.
None == <<>>
Some(x) == <<x>>
Val(o) == o[1]

\* ------------------------------------------------------------------ bounds
\* Number of rebuild requests the model lets trigger_rebuild accept; the
\* background task of the t-th accepted request is task t.
MaxRebuilds == 2

Tasks == 1..MaxRebuilds

\* Longest list of texts handed to get_embeddings.
MaxTexts == 3

\* Longest chunk list handed to build_index.
MaxChunks == 2

\* Number of build_index calls (each by a process of its own: a rebuild task
\* of the server, `rag rebuild`, `rag init`).
MaxBuilds == 2

Builders == 1..MaxBuilds

\* Most files in a scanned folder, longest file content, and largest
\* chunk_size (overlap ranges over 0..MaxChunkSize).
MaxDocs == 2

MaxDocLen == 8

MaxChunkSize == 4

\* Most vectors in the index, and most entries in the metadata list, handed
\* to retrieve_context; k ranges over 1..MaxVectors + 1.
MaxVectors == 3

\* ------------------------------------------------------- the environment
\* Folders of the file system, by what load_files finds there.
DocsDir == <<"d">>
EmptyDir == <<"e">>
NotADir == <<"x">>

\* The folder_path values a /rebuild request carries: absent, empty, blank,
\* the documents folder with blanks around it, and the two other folders.
FolderArgs == {None} \cup
    {Some(p) : p \in {<<>>, <<" ">>, <<" ", "d", " ">>, EmptyDir, NotADir}}

\* (chunk_size, overlap) pairs rag.yaml may hold.
ChunkSettings == {<<2, 1>>, <<1, 1>>}

\* A file of the index directory is None (absent) or Some(content). The
\* content written by build_index call number `build` is Written(build, data);
\* build 0 is the pair found on disk when the server starts (built by an
\* earlier `rag init`), build t > 0 the one of rebuild task t. The server
\* specification keeps no data in it, only the build. Corrupt is a file whose
\* write failed part-way: it exists, and reading it raises.
Written(build, data) == [build |-> build, data |-> data]

Corrupt == Some(Written(-1, <<>>))

VARIABLES
    config,           \* state.config: None or Some(RAGConfig record)
    index,            \* state.index: None or Some(the index file's content loaded)
    metadata,         \* state.metadata: None or Some(the metadata file's content loaded)
    client,           \* state.client: None or Some("OpenAI")
    rebuild_status,   \* state.rebuild_status
    rebuild_message,  \* state.rebuild_message
    tasks,            \* the background tasks: position and locals of each
    req,              \* the request handler thread: position and locals
    index_file,       \* .rag_index/faiss.index
    meta_file,        \* .rag_index/metadata.json
    rag_yaml,         \* rag.yaml: None or Some(the folder_path saved)
    emb,              \* one get_embeddings call: its arguments and its outcome
    builders,         \* the build_index calls of the processes that build
    loader,           \* a process that calls load_faiss_index
    chunker,          \* one load_files / chunk_text call: arguments and locals
    retriever         \* one retrieve_context call: arguments and locals

vars == <<config, index, metadata, client, rebuild_status, rebuild_message,
          tasks, req, index_file, meta_file, rag_yaml, emb, builders, loader,
          chunker, retriever>>

\* The variables of the server (rag/server.py) and those of the
\* specifications of single functions (SpecEmbed, SpecIndex, SpecChunk,
\* SpecRetrieve); index_file and meta_file belong to the server and to
\* SpecIndex.
server == <<config, index, metadata, client, rebuild_status, rebuild_message,
            tasks, req, rag_yaml>>
aux == <<emb, builders, loader, chunker, retriever>>

shared == <<config, index, metadata, client, rebuild_status, rebuild_message>>
disk == <<index_file, meta_file, rag_yaml>>

\* ------------------------------------------------------------ str helpers
IsSpace(c) == c \in {" ", "\n", "\t"}

RECURSIVE LStrip(_)
LStrip(s) == IF s # <<>> /\ IsSpace(Head(s)) THEN LStrip(Tail(s)) ELSE s

RECURSIVE RStrip(_)
RStrip(s) ==
    IF s # <<>> /\ IsSpace(s[Len(s)]) THEN RStrip(SubSeq(s, 1, Len(s) - 1)) ELSE s

\* str.strip()
Strip(s) == RStrip(LStrip(s))

\* Python truth of an Optional[str]: None and "" are false.
Truthy(o) == o # None /\ Val(o) # <<>>

\* ------------------------------------------------------------ load_files
\* os.path.isdir(folder_path)
IsDir(p) == p \in {DocsDir, EmptyDir}

\* load_files finds at least one document with non-blank content.
HasDocs(p) == p = DocsDir

\* --------------------------------------------------- rag/index.py: data
\* Chunk texts, and the chunks build_index is called with.
Texts == {<<"a">>, <<"a", "\n">>, <<"\n", "b">>}

ChunkPool == {[text |-> <<"a", "\n">>, source |-> "p.txt"],
              [text |-> <<"\n", "b">>, source |-> "q.md"]}

SeqsUpTo(S, n) == UNION {[1..k -> S] : k \in 0..n}

\* text.replace("\n", " ")
Clean(text) == [i \in 1..Len(text) |-> IF text[i] = "\n" THEN " " ELSE text[i]]

\* The embedding service. It answers one request in one of three ways: it
\* fails, it returns the model's vector for the input it was sent, or it
\* returns a vector of another dimension.
Answers == {"fail", "ok", "short"}

Ord(c) == CASE c = "a" -> 97 [] c = "b" -> 98 [] c = " " -> 32 [] OTHER -> 10

RECURSIVE SumOrd(_)
SumOrd(text) == IF text = <<>> THEN 0 ELSE Ord(Head(text)) + 7 * SumOrd(Tail(text))

\* The model's vector for an input: two float64 components, the second not
\* a float32 number for inputs of odd length.
Embed(input) == <<SumOrd(input), 16777216 + Len(input)>>

\* client.embeddings.create(input=[input], model=model).data[0].embedding,
\* or None when the call raises.
Service(answer, input) ==
    CASE answer = "ok" -> Some(Embed(input))
      [] answer = "short" -> Some(<<0>>)
      [] OTHER -> None

\* float64 -> float32 (round to nearest, ties to even), for the integers of
\* magnitude below 2^25.
Float32(x) ==
    IF x <= 16777216 THEN x
    ELSE IF x % 2 = 0 THEN x
    ELSE IF (x - 1) % 4 = 0 THEN x - 1 ELSE x + 1

\* The outcome of a call: it raised, or it returned value.
Raised == [raised |-> TRUE, value |-> <<>>]
Returned(v) == [raised |-> FALSE, value |-> v]

\* A faulty variant of the loop body of get_embeddings: a failed item is
\* skipped.
EmbedItem_skip(acc, text, answer) ==
    LET r == Service(answer, Clean(text))
    IN  IF r = None THEN acc ELSE Returned(Append(acc.value, Val(r)))

\* A faulty variant of the loop body of get_embeddings: a failed item gets
\* the zero vector (the alternative the comment of line 29 names).
EmbedItem_zero(acc, text, answer) ==
    LET r == Service(answer, Clean(text))
    IN  Returned(Append(acc.value, IF r = None THEN <<0, 0>> ELSE Val(r)))

\* index.py:18-32, one iteration: the list so far, or the exception raised.
EmbedItem(acc, text, answer) ==
    LET r == Service(answer, Clean(text))
    IN  IF r = None THEN Raised ELSE Returned(Append(acc.value, Val(r)))

\* index.py:17, the for loop from item i on; answers[i] is the service's
\* answer to the request made for item i.
RECURSIVE EmbedLoop(_, _, _, _)
EmbedLoop(texts, answers, i, acc) ==
    IF acc.raised \/ i > Len(texts) THEN acc
    ELSE EmbedLoop(texts, answers, i + 1, EmbedItem(acc, texts[i], answers[i]))

\* The number of requests the loop makes to the service from item i on,
\* added to the i - 1 made before.
RECURSIVE Requested(_, _, _, _)
Requested(texts, answers, i, acc) ==
    IF acc.raised \/ i > Len(texts) THEN i - 1
    ELSE Requested(texts, answers, i + 1, EmbedItem(acc, texts[i], answers[i]))

\* index.py:34, np.array(embeddings, dtype="float32"): rows of different
\* lengths raise ValueError.
NpArrayFloat32(rows) ==
    IF \E i, j \in 1..Len(rows) : Len(rows[i]) # Len(rows[j]) THEN Raised
    ELSE Returned([i \in 1..Len(rows) |->
                     [j \in 1..Len(rows[i]) |-> Float32(rows[i][j])]])

\* get_embeddings(client, texts, model)
get_embeddings(texts, answers) ==
    LET acc == EmbedLoop(texts, answers, 1, Returned(<<>>))
    IN  IF acc.raised THEN Raised ELSE NpArrayFloat32(acc.value)

\* faiss.IndexFlatL2(d) and index.add(rows): the index keeps the number of
\* vectors and their components in one flat array, in the order added.
RECURSIVE Flatten(_)
Flatten(rows) == IF rows = <<>> THEN <<>> ELSE Head(rows) \o Flatten(Tail(rows))

IndexFlatL2(d) == [d |-> d, ntotal |-> 0, xb |-> <<>>]

IndexAdd(ix, rows) == [ix EXCEPT !.ntotal = @ + Len(rows), !.xb = @ \o Flatten(rows)]

\* Vector i of an index.
Reconstruct(ix, i) == SubSeq(ix.xb, (i - 1) * ix.d + 1, i * ix.d)

\* faiss.write_index / faiss.read_index: the file holds the dimension, the
\* number of vectors and the float32 components.
write_index(ix) == <<ix.d, ix.ntotal>> \o ix.xb

read_index(file) == [d |-> file[1], ntotal |-> file[2], xb |-> SubSeq(file, 3, Len(file))]

\* json.dump / json.load of the chunk list: a newline inside a string is
\* written as the escape \n.
JsonEscape(text) == [i \in 1..Len(text) |-> IF text[i] = "\n" THEN "\\n" ELSE text[i]]

\* A faulty variant of the reader: the escape is left in the string.
JsonUnescape_raw(str) == str

JsonUnescape(str) == [i \in 1..Len(str) |-> IF str[i] = "\\n" THEN "\n" ELSE str[i]]

json_dump(chunks) ==
    [i \in 1..Len(chunks) |->
        [text |-> JsonEscape(chunks[i].text), source |-> chunks[i].source]]

json_load(doc) ==
    [i \in 1..Len(doc) |->
        [text |-> JsonUnescape(doc[i].text), source |-> doc[i].source]]

\* One get_embeddings call (SpecEmbed).
NoCall == [pc |-> "none", texts |-> <<>>, answers |-> <<>>, result |-> Returned(<<>>)]

\* One build_index call: position, the chunks argument and the index built
\* in memory; nth counts the calls begun so far, and alone tells that no
\* other call was running when this one began. Of the call it also records
\* whether the chunk list was empty, whether the embedding service failed
\* for one of its items, the number of requests made to the service, and
\* the line printed.
NoBuild == [pc |-> "none", chunks |-> <<>>, index |-> None, nth |-> 0, alone |-> TRUE,
            empty |-> FALSE, failed |-> FALSE, requests |-> 0, report |-> ""]

\* One load_faiss_index call: position, the locals index and metadata, and
\* the positions of the build_index calls when the load began (seen).
NoLoad == [pc |-> "none", index |-> None, metadata |-> None, seen |-> <<>>]

\* One load_files / chunk_text call: position, the files of the folder
\* scanned, the documents argument, chunk_size and overlap, and the locals
\* of chunk_text: the number d of the document in the for loop, start and
\* chunks. Of the chunks appended after the first ChunkCap the record keeps
\* only whether their number is odd (more).
NoChunk == [pc |-> "none", files |-> <<>>, documents |-> <<>>, chunk_size |-> 1,
            overlap |-> 0, d |-> 0, start |-> 0, chunks |-> <<>>, more |-> 0]

\* One retrieve_context call: position, the arguments query, index,
\* metadata and k, what the environment does (the service's answer to the
\* embedding request, whether index.search works), the locals query_vec and
\* indices[0] (labels), the exception caught at line 24, and the outcome.
NoRetrieve == [pc |-> "none", query |-> <<>>, index |-> None, metadata |-> None,
               k |-> 0, answer |-> "ok", search_ok |-> TRUE, query_vec |-> <<>>,
               labels |-> <<>>, exc |-> "", result |-> Returned(<<>>)]

\* ---------------------------------------------------------------- State
RAGConfig(fp, cs) == [folder_path |-> fp, chunk_size |-> cs[1], overlap |-> cs[2]]

\* The handler thread: the endpoint it runs (op), its position (pc), the
\* request's folder_path (arg), the values it has read (status, idx, meta)
\* and the response it sends (code, detail, message).
IdleReq == [op |-> "none", pc |-> "idle", arg |-> None, code |-> 0, detail |-> "",
            status |-> "", message |-> "", idx |-> None, meta |-> None]

\* A background task: position, folder_path argument, the locals of
\* load_faiss_index (idx, meta), the exception caught at line 95, and the
\* (index, metadata) values in memory when the task began (old).
NoTask == [pc |-> "none", arg |-> None, idx |-> None, meta |-> None,
           exc |-> "", old |-> <<None, None>>]

\* load_faiss_index() run in one piece against the two files (no writer is
\* active while the server starts).
LoadPair(ifile, mfile) ==
    IF ifile = None \/ mfile = None THEN <<None, None>> ELSE <<ifile, mfile>>

\* startup_event: the server state for a loaded config (or None) and the
\* persisted pair (or None).
startup_event(cfg, gen) ==
    /\ config = cfg
    /\ rebuild_status = "idle"
    /\ rebuild_message = ""
    /\ IF cfg = None
       THEN index = None /\ metadata = None /\ client = None
       ELSE /\ index = LoadPair(gen, gen)[1]
            /\ metadata = LoadPair(gen, gen)[2]
            /\ client = Some("OpenAI")

Init ==
    \E cfg \in {None} \cup {Some(RAGConfig(DocsDir, cs)) : cs \in ChunkSettings},
       gen \in {None, Some(Written(0, <<>>))} :
        /\ startup_event(cfg, gen)
        /\ index_file = gen
        /\ meta_file = gen
        /\ rag_yaml = (IF cfg = None THEN None ELSE Some(Val(cfg).folder_path))
        /\ tasks = [t \in Tasks |-> NoTask]
        /\ req = IdleReq
        /\ emb = NoCall
        /\ builders = [b \in Builders |-> NoBuild]
        /\ loader = NoLoad
        /\ chunker = NoChunk
        /\ retriever = NoRetrieve

\* ------------------------------------------------------ request handlers
Response(op, code, detail) ==
    [IdleReq EXCEPT !.op = op, !.pc = "resp", !.code = code, !.detail = detail]

RebuildResponse(fp, code, detail) == [Response("rebuild", code, detail) EXCEPT !.arg = fp]

\* Faulty variants of the guard of line 103: the guard left out, and a guard
\* that lets only the first rebuild through.
RebuildInProgress_never == FALSE

RebuildInProgress_notidle == rebuild_status # "idle"

\* server.py:103
RebuildInProgress == rebuild_status = "running"

\* A faulty variant of the guard of line 106: the guard left out.
NoConfigNoPath_never(fp) == FALSE

\* server.py:106
NoConfigNoPath(fp) == config = None /\ ~Truthy(fp)

\* background_tasks.add_task: the next unused task.
NextTask ==
    CHOOSE t \in Tasks :
        tasks[t].pc = "none" /\ \A u \in 1..(t - 1) : tasks[u].pc # "none"

\* POST /rebuild
trigger_rebuild(fp) ==
    /\ req.pc = "idle"
    /\ IF RebuildInProgress
       THEN /\ req' = RebuildResponse(fp, 400, "Rebuild already in progress")
            /\ UNCHANGED tasks
       ELSE IF NoConfigNoPath(fp)
       THEN /\ req' = RebuildResponse(fp, 400, "No config found. Please provide folder path.")
            /\ UNCHANGED tasks
       ELSE /\ \E t \in Tasks : tasks[t].pc = "none"
            /\ tasks' = [tasks EXCEPT ![NextTask] = [NoTask EXCEPT !.pc = "queued", !.arg = fp]]
            /\ req' = RebuildResponse(fp, 200, "started")
    /\ UNCHANGED <<shared, disk, aux>>

\* GET /rebuild/status: the two attribute reads of line 114.
get_rebuild_status_status ==
    /\ req.pc = "idle"
    /\ req' = [IdleReq EXCEPT !.op = "status", !.pc = "l114", !.status = rebuild_status]
    /\ UNCHANGED <<shared, disk, tasks, aux>>

\* A faulty variant of the second read: the message read is cleared.
get_rebuild_status_message_clear ==
    /\ req.op = "status" /\ req.pc = "l114"
    /\ req' = [req EXCEPT !.pc = "resp", !.code = 200, !.message = rebuild_message]
    /\ rebuild_message' = ""
    /\ UNCHANGED <<config, index, metadata, client, rebuild_status, disk, tasks, aux>>

get_rebuild_status_message ==
    /\ req.op = "status" /\ req.pc = "l114"
    /\ req' = [req EXCEPT !.pc = "resp", !.code = 200, !.message = rebuild_message]
    /\ UNCHANGED <<shared, disk, tasks, aux>>

\* Faulty variant of the guard of line 118: busy only once an index is loaded
\* (the two guards of chat_endpoint in the other order).
ChatBusy_afterinit == rebuild_status = "running" /\ index # None

\* server.py:118
ChatBusy == rebuild_status = "running"

\* Faulty variant of the guard of line 121: the index is not looked at.
NotInitialized_clientonly == client = None

\* server.py:121
NotInitialized == client = None \/ index = None

\* POST /chat, line 118
chat_endpoint_l118 ==
    /\ req.pc = "idle"
    /\ req' = IF ChatBusy
              THEN Response("chat", 503, "Index is currently rebuilding. Please wait.")
              ELSE [IdleReq EXCEPT !.op = "chat", !.pc = "l121"]
    /\ UNCHANGED <<shared, disk, tasks, aux>>

\* line 121
chat_endpoint_l121 ==
    /\ req.op = "chat" /\ req.pc = "l121"
    /\ req' = IF NotInitialized
              THEN Response("chat", 500, "RAG system not initialized. Please rebuild index.")
              ELSE [req EXCEPT !.pc = "l128"]
    /\ UNCHANGED <<shared, disk, tasks, aux>>

\* line 128: the argument state.index is read
chat_endpoint_l128 ==
    /\ req.op = "chat" /\ req.pc = "l128"
    /\ req' = [req EXCEPT !.pc = "l129", !.idx = index]
    /\ UNCHANGED <<shared, disk, tasks, aux>>

\* line 129: the argument state.metadata is read
chat_endpoint_l129 ==
    /\ req.op = "chat" /\ req.pc = "l129"
    /\ req' = [req EXCEPT !.pc = "l125", !.meta = metadata]
    /\ UNCHANGED <<shared, disk, tasks, aux>>

\* lines 125-149: retrieve_context(client, query, req.idx, req.meta, model),
\* then generate_response, which answers or raises (FastAPI then answers 500).
chat_endpoint_l125 ==
    /\ req.op = "chat" /\ req.pc = "l125"
    /\ \/ req' = [req EXCEPT !.pc = "resp", !.code = 200, !.detail = "answer"]
       \/ req' = Response("chat", 500, "Internal Server Error")
    /\ UNCHANGED <<shared, disk, tasks, aux>>

\* The response is sent and the handler thread is free again.
respond ==
    /\ req.pc = "resp"
    /\ req' = IdleReq
    /\ UNCHANGED <<shared, disk, tasks, aux>>

\* ----------------------------------------------------- run_rebuild_task
\* str(e) in the message of line 97, by the exception caught.
ErrMsg(exc) ==
    CASE exc = "AttributeError" -> "Error: 'NoneType' object has no attribute 'folder_path'"
      [] exc = "ValueError" -> "Error: Path is not a directory."
      [] exc = "APIError" -> "Error: embedding request failed"
      [] exc = "OSError" -> "Error: could not write file"
      [] exc = "MemoryError" -> "Error: "
      [] OTHER -> "Error: could not read index"

Goto(t, pc) == [tasks EXCEPT ![t].pc = pc]

\* An exception inside the try block: control goes to the handler, line 95.
Raise(t, exc) == [tasks EXCEPT ![t].pc = "l96", ![t].exc = exc]

\* The while loop of chunk_text ends: the window start moves forward.
chunk_text_returns(cfg) == cfg.overlap < cfg.chunk_size

\* line 63: the task starts
run_rebuild_task_l63(t) ==
    /\ tasks[t].pc = "queued"
    /\ rebuild_status' = "running"
    /\ tasks' = [tasks EXCEPT ![t].pc = "l64", ![t].old = <<index, metadata>>]
    /\ UNCHANGED <<config, index, metadata, client, rebuild_message, req, disk, aux>>

\* line 64
run_rebuild_task_l64(t) ==
    /\ tasks[t].pc = "l64"
    /\ rebuild_message' = "Starting rebuild..."
    /\ tasks' = Goto(t, "l67")
    /\ UNCHANGED <<config, index, metadata, client, rebuild_status, req, disk, aux>>

\* lines 67-69: the config takes the stripped path and is saved
run_rebuild_task_l67(t) ==
    /\ tasks[t].pc = "l67"
    /\ IF Truthy(tasks[t].arg) /\ Strip(Val(tasks[t].arg)) # <<>>
       THEN IF config = None
            THEN /\ tasks' = Raise(t, "AttributeError")
                 /\ UNCHANGED <<config, rag_yaml>>
            ELSE /\ config' = Some([Val(config) EXCEPT !.folder_path = Strip(Val(tasks[t].arg))])
                 /\ \/ /\ rag_yaml' = Some(Strip(Val(tasks[t].arg)))
                       /\ tasks' = [tasks EXCEPT ![t].pc = "l70", ![t].arg = None]
                    \/ /\ tasks' = Raise(t, "OSError")
                       /\ UNCHANGED rag_yaml
       ELSE /\ tasks' = [tasks EXCEPT ![t].pc = "l73", ![t].arg = None]
            /\ UNCHANGED <<config, rag_yaml>>
    /\ UNCHANGED <<index, metadata, client, rebuild_status, rebuild_message, req,
                   index_file, meta_file, aux>>

\* line 70
run_rebuild_task_l70(t) ==
    /\ tasks[t].pc = "l70"
    /\ rebuild_message' = "Updated config to: folder_path"
    /\ tasks' = Goto(t, "l73")
    /\ UNCHANGED <<config, index, metadata, client, rebuild_status, req, disk, aux>>

\* line 73
run_rebuild_task_l73(t) ==
    /\ tasks[t].pc = "l73"
    /\ rebuild_message' = "Scanning files..."
    /\ tasks' = Goto(t, "l74")
    /\ UNCHANGED <<config, index, metadata, client, rebuild_status, req, disk, aux>>

\* lines 74-75: load_files on the configured folder
run_rebuild_task_l74(t) ==
    /\ tasks[t].pc = "l74"
    /\ tasks' = IF config = None THEN Raise(t, "AttributeError")
                ELSE IF ~IsDir(Val(config).folder_path) THEN Raise(t, "ValueError")
                ELSE IF ~HasDocs(Val(config).folder_path) THEN Goto(t, "l76")
                ELSE Goto(t, "l81")
    /\ UNCHANGED <<shared, req, disk, aux>>

\* line 76
run_rebuild_task_l76(t) ==
    /\ tasks[t].pc = "l76"
    /\ rebuild_status' = "error"
    /\ tasks' = [tasks EXCEPT ![t].pc = "l77", ![t].old = <<None, None>>]
    /\ UNCHANGED <<config, index, metadata, client, rebuild_message, req, disk, aux>>

\* lines 77-78
run_rebuild_task_l77(t) ==
    /\ tasks[t].pc = "l77"
    /\ rebuild_message' = "No valid documents found."
    /\ tasks' = Goto(t, "done")
    /\ UNCHANGED <<config, index, metadata, client, rebuild_status, req, disk, aux>>

\* line 81
run_rebuild_task_l81(t) ==
    /\ tasks[t].pc = "l81"
    /\ rebuild_message' = "Chunking documents..."
    /\ tasks' = Goto(t, "l82")
    /\ UNCHANGED <<config, index, metadata, client, rebuild_status, req, disk, aux>>

\* lines 82-85: chunk_text, and once it has returned the next message
run_rebuild_task_l82(t) ==
    /\ tasks[t].pc = "l82"
    /\ chunk_text_returns(Val(config))
    /\ rebuild_message' = "Indexing chunks..."
    /\ tasks' = Goto(t, "l86")
    /\ UNCHANGED <<config, index, metadata, client, rebuild_status, req, disk, aux>>

\* line 82 while the loop of chunk_text does not end (chunking.py:12-25 with
\* chunk_size - overlap <= 0): one more iteration, which appends a chunk.
\* The task is at "l82" before an even iteration and at "c12" before an odd
\* one.
run_rebuild_task_c12(t) ==
    /\ tasks[t].pc \in {"l82", "c12"}
    /\ ~chunk_text_returns(Val(config))
    /\ tasks' = Goto(t, IF tasks[t].pc = "l82" THEN "c12" ELSE "l82")
    /\ UNCHANGED <<shared, req, disk, aux>>

\* The list of that loop has used up the memory of the process; the
\* MemoryError is caught at line 95.
chunk_text_exhausts(t) ==
    /\ tasks[t].pc \in {"l82", "c12"}
    /\ ~chunk_text_returns(Val(config))
    /\ tasks' = Raise(t, "MemoryError")
    /\ UNCHANGED <<shared, req, disk, aux>>

\* line 86, build_index up to index.py:58: the embeddings are computed (or
\* the call raises) and the index file is written (or the write raises,
\* before or after the file is opened for writing).
run_rebuild_task_l86(t) ==
    /\ tasks[t].pc = "l86"
    /\ \/ /\ tasks' = Raise(t, "APIError")
          /\ UNCHANGED index_file
       \/ /\ index_file' = Some(Written(t, <<>>))
          /\ tasks' = Goto(t, "i61")
       \/ /\ tasks' = Raise(t, "OSError")
          /\ UNCHANGED index_file
       \/ /\ index_file' = Corrupt
          /\ tasks' = Raise(t, "OSError")
    /\ UNCHANGED <<shared, req, meta_file, rag_yaml, aux>>

\* build_index, index.py:61-62: the metadata file is written
run_rebuild_task_i61(t) ==
    /\ tasks[t].pc = "i61"
    /\ \/ /\ meta_file' = Some(Written(t, <<>>))
          /\ tasks' = Goto(t, "l89")
       \/ /\ tasks' = Raise(t, "OSError")
          /\ UNCHANGED meta_file
       \/ /\ meta_file' = Corrupt
          /\ tasks' = Raise(t, "OSError")
    /\ UNCHANGED <<shared, req, index_file, rag_yaml, aux>>

\* A faulty variant of line 89: the message of the scan is set again.
run_rebuild_task_l89_scan(t) ==
    /\ tasks[t].pc = "l89"
    /\ rebuild_message' = "Scanning files..."
    /\ tasks' = Goto(t, "i69")
    /\ UNCHANGED <<config, index, metadata, client, rebuild_status, req, disk, aux>>

\* line 89
run_rebuild_task_l89(t) ==
    /\ tasks[t].pc = "l89"
    /\ rebuild_message' = "Reloading index..."
    /\ tasks' = Goto(t, "i69")
    /\ UNCHANGED <<config, index, metadata, client, rebuild_status, req, disk, aux>>

\* line 90, load_faiss_index, index.py:69-70: both files must exist
run_rebuild_task_i69(t) ==
    /\ tasks[t].pc = "i69"
    /\ tasks' = IF index_file = None \/ meta_file = None
                THEN [tasks EXCEPT ![t].pc = "l90", ![t].idx = None, ![t].meta = None]
                ELSE Goto(t, "i72")
    /\ UNCHANGED <<shared, req, disk, aux>>

\* index.py:72: faiss.read_index
run_rebuild_task_i72(t) ==
    /\ tasks[t].pc = "i72"
    /\ tasks' = IF index_file = Corrupt THEN Raise(t, "ReadError")
                ELSE [tasks EXCEPT ![t].pc = "i74", ![t].idx = index_file]
    /\ UNCHANGED <<shared, req, disk, aux>>

\* index.py:74-75: json.load
run_rebuild_task_i74(t) ==
    /\ tasks[t].pc = "i74"
    /\ tasks' = IF meta_file = Corrupt THEN Raise(t, "ReadError")
                ELSE [tasks EXCEPT ![t].pc = "l90", ![t].meta = meta_file]
    /\ UNCHANGED <<shared, req, disk, aux>>

\* line 90: the first store of the tuple assignment, state.index
run_rebuild_task_l90(t) ==
    /\ tasks[t].pc = "l90"
    /\ index' = tasks[t].idx
    /\ tasks' = Goto(t, "l90m")
    /\ UNCHANGED <<config, metadata, client, rebuild_status, rebuild_message, req, disk, aux>>

\* line 90: the second store, state.metadata
run_rebuild_task_l90m(t) ==
    /\ tasks[t].pc = "l90m"
    /\ metadata' = tasks[t].meta
    /\ tasks' = [tasks EXCEPT ![t].pc = "l92", ![t].idx = None, ![t].meta = None]
    /\ UNCHANGED <<config, index, client, rebuild_status, rebuild_message, req, disk, aux>>

\* line 92
run_rebuild_task_l92(t) ==
    /\ tasks[t].pc = "l92"
    /\ rebuild_status' = "success"
    /\ tasks' = [tasks EXCEPT ![t].pc = "l93", ![t].old = <<None, None>>]
    /\ UNCHANGED <<config, index, metadata, client, rebuild_message, req, disk, aux>>

\* line 93
run_rebuild_task_l93(t) ==
    /\ tasks[t].pc = "l93"
    /\ rebuild_message' = "Index rebuilt successfully!"
    /\ tasks' = Goto(t, "done")
    /\ UNCHANGED <<config, index, metadata, client, rebuild_status, req, disk, aux>>

\* line 96
run_rebuild_task_l96(t) ==
    /\ tasks[t].pc = "l96"
    /\ rebuild_status' = "error"
    /\ tasks' = [tasks EXCEPT ![t].pc = "l97", ![t].old = <<None, None>>]
    /\ UNCHANGED <<config, index, metadata, client, rebuild_message, req, disk, aux>>

\* lines 97-98
run_rebuild_task_l97(t) ==
    /\ tasks[t].pc = "l97"
    /\ rebuild_message' = ErrMsg(tasks[t].exc)
    /\ tasks' = [tasks EXCEPT ![t].pc = "done", ![t].exc = "", ![t].idx = None, ![t].meta = None]
    /\ UNCHANGED <<config, index, metadata, client, rebuild_status, req, disk, aux>>

run_rebuild_task(t) ==
    \/ run_rebuild_task_l63(t) \/ run_rebuild_task_l64(t) \/ run_rebuild_task_l67(t)
    \/ run_rebuild_task_l70(t) \/ run_rebuild_task_l73(t) \/ run_rebuild_task_l74(t)
    \/ run_rebuild_task_l76(t) \/ run_rebuild_task_l77(t) \/ run_rebuild_task_l81(t)
    \/ run_rebuild_task_l82(t) \/ run_rebuild_task_c12(t)
    \/ run_rebuild_task_l86(t) \/ run_rebuild_task_i61(t)
    \/ run_rebuild_task_l89(t) \/ run_rebuild_task_i69(t) \/ run_rebuild_task_i72(t)
    \/ run_rebuild_task_i74(t) \/ run_rebuild_task_l90(t) \/ run_rebuild_task_l90m(t)
    \/ run_rebuild_task_l92(t) \/ run_rebuild_task_l93(t) \/ run_rebuild_task_l96(t)
    \/ run_rebuild_task_l97(t)

chat_endpoint ==
    \/ chat_endpoint_l118 \/ chat_endpoint_l121 \/ chat_endpoint_l128
    \/ chat_endpoint_l129 \/ chat_endpoint_l125

get_rebuild_status == get_rebuild_status_status \/ get_rebuild_status_message

Next ==
    \/ \E fp \in FolderArgs : trigger_rebuild(fp)
    \/ get_rebuild_status
    \/ chat_endpoint
    \/ respond
    \/ \E t \in Tasks : run_rebuild_task(t)
    \/ \E t \in Tasks : chunk_text_exhausts(t)

Spec == Init /\ [][Next]_vars

\* The thread pool runs every background task: a task that can take its next
\* step takes it. Nothing makes the memory run out.
FairSpec == Spec /\ \A t \in Tasks : WF_vars(run_rebuild_task(t))

\* ================================================= rag/index.py in detail
\* Every variable of the server keeps the value it has in a server that was
\* started without rag.yaml and has served nothing.
ServerIdle ==
    /\ startup_event(None, None)
    /\ rag_yaml = None
    /\ tasks = [t \in Tasks |-> NoTask]
    /\ req = IdleReq

\* ------------------------------------------------------------- SpecEmbed
\* get_embeddings on every list of at most MaxTexts texts, with every
\* sequence of answers of the embedding service.
InitEmbed ==
    /\ ServerIdle
    /\ index_file = None /\ meta_file = None
    /\ builders = [b \in Builders |-> NoBuild]
    /\ loader = NoLoad
    /\ chunker = NoChunk
    /\ retriever = NoRetrieve
    /\ \E texts \in SeqsUpTo(Texts, MaxTexts) :
        \E answers \in [1..Len(texts) -> Answers] :
            emb = [NoCall EXCEPT !.pc = "call", !.texts = texts, !.answers = answers]

get_embeddings_call ==
    /\ emb.pc = "call"
    /\ LET r == get_embeddings(emb.texts, emb.answers)
       IN  emb' = [emb EXCEPT !.pc = IF r.raised THEN "raised" ELSE "returned",
                              !.result = r]
    /\ UNCHANGED <<server, chunker, retriever, index_file, meta_file, builders, loader>>

NextEmbed == get_embeddings_call

SpecEmbed == InitEmbed /\ [][NextEmbed]_vars

\* ------------------------------------------------------------- SpecIndex
\* build_index calls, each by a process of its own, and load_faiss_index
\* calls of one more process, on the files of one index directory.
InitIndex ==
    /\ ServerIdle
    /\ index_file = None /\ meta_file = None
    /\ emb = NoCall
    /\ builders = [b \in Builders |-> NoBuild]
    /\ loader = NoLoad
    /\ chunker = NoChunk
    /\ retriever = NoRetrieve

\* The positions of a build_index call that has not begun or has ended.
BuildEnded == {"none", "returned", "raised", "persisted"}

\* A build_index call ends with an exception: its locals are gone.
BuildRaises(b) ==
    [builders EXCEPT ![b].pc = "raised", ![b].chunks = <<>>, ![b].index = None]

\* A faulty variant of the guard of line 38: the guard left out.
NothingToIndex_never(chunks) == FALSE

\* index.py:38, `not chunks`
NothingToIndex(chunks) == chunks = <<>>

\* index.py:38-55: nothing to index, or the embeddings and the index in
\* memory, or the exception of get_embeddings.
build_index_l38(b, chunks, answers) ==
    /\ builders[b].pc = "none"
    /\ LET text_list == [i \in 1..Len(chunks) |-> chunks[i].text]
           embeddings == get_embeddings(text_list, answers)
           begun == [NoBuild EXCEPT
                       !.nth = 1 + Cardinality({c \in Builders : builders[c].pc # "none"}),
                       !.alone = \A c \in Builders \ {b} : builders[c].pc \in BuildEnded,
                       !.empty = (chunks = <<>>),
                       !.failed = \E i \in 1..Len(answers) : answers[i] = "fail"]
           called == [begun EXCEPT
                        !.requests = Requested(text_list, answers, 1, Returned(<<>>))]
       IN  builders' = [builders EXCEPT ![b] =
              IF NothingToIndex(chunks)
              THEN [begun EXCEPT !.pc = "returned", !.report = "No content found to index."]
              ELSE IF embeddings.raised THEN [called EXCEPT !.pc = "raised"]
              ELSE IF Len(embeddings.value) = 0
              THEN [called EXCEPT !.pc = "returned", !.report = "No embeddings generated."]
              ELSE [called EXCEPT
                       !.pc = "i58", !.chunks = chunks,
                       !.index = Some(IndexAdd(IndexFlatL2(Len(embeddings.value[1])),
                                               embeddings.value))]]
    /\ UNCHANGED <<server, chunker, retriever, index_file, meta_file, emb, loader>>

\* index.py:58, faiss.write_index: written, or it raises before or after
\* the file is opened for writing.
build_index_i58(b) ==
    /\ builders[b].pc = "i58"
    /\ \/ /\ index_file' = Some(Written(b, write_index(Val(builders[b].index))))
          /\ builders' = [builders EXCEPT ![b].pc = "i61"]
       \/ /\ builders' = BuildRaises(b)
          /\ UNCHANGED index_file
       \/ /\ index_file' = Corrupt
          /\ builders' = BuildRaises(b)
    /\ UNCHANGED <<server, chunker, retriever, meta_file, emb, loader>>

\* index.py:61-62, open(..., "w") and json.dump
build_index_i61(b) ==
    /\ builders[b].pc = "i61"
    /\ \/ /\ meta_file' = Some(Written(b, json_dump(builders[b].chunks)))
          /\ builders' = [builders EXCEPT ![b].pc = "persisted"]
       \/ /\ builders' = BuildRaises(b)
          /\ UNCHANGED meta_file
       \/ /\ meta_file' = Corrupt
          /\ builders' = BuildRaises(b)
    /\ UNCHANGED <<server, chunker, retriever, index_file, emb, loader>>

build_index(b) ==
    \/ \E chunks \in SeqsUpTo(ChunkPool, MaxChunks) :
          \E answers \in [1..Len(chunks) -> Answers \ {"short"}] :
              build_index_l38(b, chunks, answers)
    \/ build_index_i58(b)
    \/ build_index_i61(b)

\* index.py:66-70
load_faiss_index_l69 ==
    /\ loader.pc = "none"
    /\ LET began == [NoLoad EXCEPT !.seen = [b \in Builders |-> builders[b].pc]]
       IN  loader' = IF index_file = None \/ meta_file = None
                     THEN [began EXCEPT !.pc = "returned"]
                     ELSE [began EXCEPT !.pc = "i72"]
    /\ UNCHANGED <<server, chunker, retriever, index_file, meta_file, emb, builders>>

\* index.py:72, faiss.read_index
load_faiss_index_i72 ==
    /\ loader.pc = "i72"
    /\ loader' = IF index_file = Corrupt THEN [NoLoad EXCEPT !.pc = "raised"]
                 ELSE [loader EXCEPT !.pc = "i74",
                          !.index = Some(Written(Val(index_file).build,
                                                 read_index(Val(index_file).data)))]
    /\ UNCHANGED <<server, chunker, retriever, index_file, meta_file, emb, builders>>

\* index.py:74-77, json.load and return
load_faiss_index_i74 ==
    /\ loader.pc = "i74"
    /\ loader' = IF meta_file = Corrupt THEN [NoLoad EXCEPT !.pc = "raised"]
                 ELSE [loader EXCEPT !.pc = "returned",
                          !.metadata = Some(Written(Val(meta_file).build,
                                                    json_load(Val(meta_file).data)))]
    /\ UNCHANGED <<server, chunker, retriever, index_file, meta_file, emb, builders>>

\* The caller is done with the pair; the process may load again.
load_faiss_index_done ==
    /\ loader.pc \in {"returned", "raised"}
    /\ loader' = NoLoad
    /\ UNCHANGED <<server, chunker, retriever, index_file, meta_file, emb, builders>>

load_faiss_index ==
    \/ load_faiss_index_l69 \/ load_faiss_index_i72
    \/ load_faiss_index_i74 \/ load_faiss_index_done

NextIndex ==
    \/ \E b \in Builders : build_index(b)
    \/ load_faiss_index

SpecIndex == InitIndex /\ [][NextIndex]_vars

\* ---------------------------------------------------------- SpecRoundTrip
\* The same calls with no concurrent writer: a build_index call takes its
\* steps while no other build_index call is running, and load_faiss_index
\* while none is running. The calls are numbered in the order they begin.
build_index_alone(b) ==
    /\ \A c \in Builders \ {b} : builders[c].pc \in BuildEnded
    /\ \A c \in 1..(b - 1) : builders[c].pc # "none"
    /\ build_index(b)

load_faiss_index_quiet ==
    /\ \A c \in Builders : builders[c].pc \in BuildEnded
    /\ load_faiss_index

NextRoundTrip ==
    \/ \E b \in Builders : build_index_alone(b)
    \/ load_faiss_index_quiet

SpecRoundTrip == InitIndex /\ [][NextRoundTrip]_vars

\* ============================================ rag/chunking.py in detail
Min(a, b) == IF a < b THEN a ELSE b
Max(a, b) == IF a > b THEN a ELSE b

\* text[a:b] of Python: a negative bound counts from the end, and both
\* bounds are clamped to 0..len(text).
SliceBound(n, a) == IF a < 0 THEN Max(a + n, 0) ELSE Min(a, n)

\* A faulty variant of the slice: it is taken from the start of the text.
Slice_fromstart(text, a, b) ==
    LET hi == SliceBound(Len(text), b)
    IN  SubSeq(text, 1, hi)

Slice(text, a, b) ==
    LET lo == SliceBound(Len(text), a)
        hi == SliceBound(Len(text), b)
    IN  IF lo < hi THEN SubSeq(text, lo + 1, hi) ELSE <<>>

\* A faulty variant of the filter of load_files: every file is a document.
HasContent_any(content) == TRUE

\* ingest.py:41, `if content.strip()`
HasContent(content) == Strip(content) # <<>>

\* A faulty variant of line 22: the window moves by chunk_size.
Stride_nooverlap(chunk_size, overlap) == chunk_size

\* chunking.py:22, the amount start moves by
Stride(chunk_size, overlap) == chunk_size - overlap

\* File contents: the prefixes of a text of distinct letters, the text
\* 'AAAABBBB', and two contents of white space only.
Letters == <<"a", "b", "c", "d", "e", "f", "g", "h", "i", "j">>

Contents ==
    {SubSeq(Letters, 1, n) : n \in 0..MaxDocLen}
        \cup {<<"A", "A", "A", "A", "B", "B", "B", "B">>, <<" ">>, <<" ", "\n", "\t">>}

\* The path of the i-th file found.
Paths == <<"1.txt", "2.md", "3.txt", "4.md">>

\* The model records the first ChunkCap chunks of a call; a call whose
\* window moves forward appends fewer. A call that appends more is in a loop
\* whose window does not move forward, and every further iteration of it
\* appends one more chunk.
ChunkCap == MaxDocs * (MaxDocLen + 1) + 1

\* ------------------------------------------------------------- SpecChunk
\* load_files on every folder of at most MaxDocs files followed by
\* chunk_text on the documents found, and chunk_text called with every
\* document list, for every chunk_size in 1..MaxChunkSize and overlap in
\* 0..MaxChunkSize.
InitChunk ==
    /\ ServerIdle
    /\ index_file = None /\ meta_file = None
    /\ emb = NoCall
    /\ builders = [b \in Builders |-> NoBuild]
    /\ loader = NoLoad
    /\ retriever = NoRetrieve
    /\ \E n \in 0..MaxDocs, cs \in 1..MaxChunkSize, ov \in 0..MaxChunkSize :
        \E contents \in [1..n -> Contents], entry \in {"scan", "l7"} :
            LET fs == [i \in 1..n |-> [path |-> Paths[i], content |-> contents[i]]]
            IN  chunker = [NoChunk EXCEPT !.pc = entry,
                                          !.files = IF entry = "scan" THEN fs ELSE <<>>,
                                          !.documents = IF entry = "scan" THEN <<>> ELSE fs,
                                          !.chunk_size = cs,
                                          !.overlap = ov]

\* ingest.py:19-48: the files with content are the documents
load_files_scan ==
    /\ chunker.pc = "scan"
    /\ chunker' = [chunker EXCEPT
                      !.pc = "l7",
                      !.documents = SelectSeq(chunker.files, LAMBDA f : HasContent(f.content))]
    /\ UNCHANGED <<server, index_file, meta_file, emb, builders, loader, retriever>>

\* chunking.py:7-11 and 27: the next document, or the return
chunk_text_l7 ==
    /\ chunker.pc = "l7"
    /\ chunker' = IF chunker.d + 1 > Len(chunker.documents)
                  THEN [chunker EXCEPT !.pc = "returned"]
                  ELSE [chunker EXCEPT !.pc = "l12", !.d = @ + 1, !.start = 0]
    /\ UNCHANGED <<server, index_file, meta_file, emb, builders, loader, retriever>>

\* chunking.py:12-25: the loop test and one iteration
chunk_text_l12 ==
    /\ chunker.pc = "l12"
    /\ LET doc == chunker.documents[chunker.d]
           text == doc.content
           total_len == Len(text)
           start == chunker.start
           end == Min(start + chunker.chunk_size, total_len)
           chunk_str == Slice(text, start, end)
           next == start + Stride(chunker.chunk_size, chunker.overlap)
       IN  chunker' =
              IF ~(start < total_len) THEN [chunker EXCEPT !.pc = "l7"]
              ELSE IF Len(chunker.chunks) = ChunkCap
                   THEN [chunker EXCEPT !.more = 1 - @]
              ELSE [chunker EXCEPT
                       !.chunks = Append(@, [text |-> chunk_str, source |-> doc.path]),
                       !.start = next,
                       !.pc = IF next >= total_len THEN "l7" ELSE "l12"]
    /\ UNCHANGED <<server, index_file, meta_file, emb, builders, loader, retriever>>

\* The list of a loop that does not end has used up the memory.
chunk_text_memory_error ==
    /\ chunker.pc = "l12"
    /\ Len(chunker.chunks) = ChunkCap
    /\ chunker' = [chunker EXCEPT !.pc = "raised"]
    /\ UNCHANGED <<server, index_file, meta_file, emb, builders, loader, retriever>>

chunk_text == chunk_text_l7 \/ chunk_text_l12

NextChunk == load_files_scan \/ chunk_text \/ chunk_text_memory_error

SpecChunk == InitChunk /\ [][NextChunk]_vars

\* The call runs: it takes its next step whenever it has one. Nothing makes
\* the memory run out.
FairChunk == SpecChunk /\ WF_vars(load_files_scan \/ chunk_text)

\* ============================================ rag/retrieve.py in detail
\* The chunks an index and a metadata list are made of; the second and the
\* third have the same embedding.
Corpus == <<[text |-> <<"a">>, source |-> "p.txt"],
            [text |-> <<"a", "\n">>, source |-> "p.txt"],
            [text |-> <<"a", " ">>, source |-> "q.md"],
            [text |-> <<"\n", "b">>, source |-> "q.md"]>>

\* The index build_index makes of the first n chunks of the corpus.
IndexOf(n) ==
    IndexAdd(IndexFlatL2(2),
             [i \in 1..n |-> [j \in 1..2 |-> Float32(Embed(Clean(Corpus[i].text))[j])]])

RECURSIVE SqDist(_, _)
SqDist(u, v) ==
    IF u = <<>> THEN 0
    ELSE (Head(u) - Head(v)) * (Head(u) - Head(v)) + SqDist(Tail(u), Tail(v))

\* index.search(query_vec, k) of IndexFlatL2, for one query vector: the
\* labels (positions from 0) of the min(k, ntotal) nearest vectors, nearest
\* first, vectors at the same distance in any order, then -1 up to k labels.
Search(ix, q, k) ==
    LET n == Min(k, ix.ntotal)
        dist(i) == SqDist(Reconstruct(ix, i), q)
        Hits == {h \in [1..n -> 1..ix.ntotal] :
                    /\ \A a, b \in 1..n : a < b => h[a] # h[b] /\ dist(h[a]) <= dist(h[b])
                    /\ \A i \in 1..ix.ntotal :
                          (\A a \in 1..n : h[a] # i) => \A a \in 1..n : dist(h[a]) <= dist(i)}
    IN  {[j \in 1..k |-> IF j <= n THEN h[j] - 1 ELSE -1] : h \in Hits}

\* A faulty variant of the test of line 20: the sentinel is not looked at.
Keep_nosentinel(idx, len) == idx < len

\* retrieve.py:20
Keep(idx, len) == idx # -1 /\ idx < len

\* list[idx] of Python: a negative idx counts from the end; None is the
\* IndexError.
PyIndex(list, idx) ==
    LET pos == IF idx < 0 THEN Len(list) + idx + 1 ELSE idx + 1
    IN  IF pos \in 1..Len(list) THEN Some(list[pos]) ELSE None

\* retrieve.py:18-23: the loop over indices[0] from label i on. metadata is
\* None or Some(list); len(None) raises TypeError, and `and` evaluates
\* len(metadata) only where the test idx != -1 lets it.
RECURSIVE RetrieveLoop(_, _, _, _)
RetrieveLoop(labels, meta, i, results) ==
    IF i > Len(labels) THEN Returned(results)
    ELSE IF labels[i] = -1 /\ ~Keep(-1, 0) THEN RetrieveLoop(labels, meta, i + 1, results)
    ELSE IF meta = None THEN Raised
    ELSE IF ~Keep(labels[i], Len(Val(meta))) THEN RetrieveLoop(labels, meta, i + 1, results)
    ELSE IF PyIndex(Val(meta), labels[i]) = None THEN Raised
    ELSE RetrieveLoop(labels, meta, i + 1,
                      Append(results, Val(PyIndex(Val(meta), labels[i]))))

\* A faulty variant of the handler of lines 24-26: the exception goes on to
\* the caller.
RetrieveExcept_raise(exc) == [result |-> Raised, exc |-> exc]

\* retrieve.py:24-26: the exception is printed and [] is returned
RetrieveExcept(exc) == [result |-> Returned(<<>>), exc |-> exc]

Failed(exc) ==
    [retriever EXCEPT !.pc = IF RetrieveExcept(exc).result.raised THEN "raised" ELSE "returned",
                      !.result = RetrieveExcept(exc).result,
                      !.exc = exc,
                      !.query_vec = <<>>, !.labels = <<>>]

\* ---------------------------------------------------------- SpecRetrieve
\* retrieve_context with every index of at most MaxVectors vectors (or
\* none), every metadata list of at most MaxVectors entries (or none), of
\* the same length or not, every k, every answer of the embedding service,
\* and a search that works or raises.
InitRetrieve ==
    /\ ServerIdle
    /\ index_file = None /\ meta_file = None
    /\ emb = NoCall
    /\ builders = [b \in Builders |-> NoBuild]
    /\ loader = NoLoad
    /\ chunker = NoChunk
    /\ \E ix \in {None} \cup {Some(IndexOf(n)) : n \in 0..MaxVectors},
          md \in {None} \cup {Some(SubSeq(Corpus, 1, m)) : m \in 0..MaxVectors},
          k \in 1..(MaxVectors + 1),
          query \in {<<"a">>, <<"\n", "b">>},
          answer \in Answers,
          search_ok \in BOOLEAN :
        retriever = [NoRetrieve EXCEPT !.pc = "l8", !.query = query, !.index = ix,
                                       !.metadata = md, !.k = k, !.answer = answer,
                                       !.search_ok = search_ok]

\* retrieve.py:8-13: the query is embedded
retrieve_context_l8 ==
    /\ retriever.pc = "l8"
    /\ LET r == Service(retriever.answer, Clean(retriever.query))
       IN  retriever' =
              IF r = None THEN Failed("APIError")
              ELSE [retriever EXCEPT !.pc = "l16",
                       !.query_vec = [j \in 1..Len(Val(r)) |-> Float32(Val(r)[j])]]
    /\ UNCHANGED <<server, index_file, meta_file, emb, builders, loader, chunker>>

\* retrieve.py:16: the search
retrieve_context_l16 ==
    /\ retriever.pc = "l16"
    /\ IF retriever.index = None THEN retriever' = Failed("AttributeError")
       ELSE IF Len(retriever.query_vec) # Val(retriever.index).d
       THEN retriever' = Failed("AssertionError")
       ELSE IF ~retriever.search_ok THEN retriever' = Failed("RuntimeError")
       ELSE \E labels \in Search(Val(retriever.index), retriever.query_vec, retriever.k) :
               retriever' = [retriever EXCEPT !.pc = "l18", !.labels = labels]
    /\ UNCHANGED <<server, index_file, meta_file, emb, builders, loader, chunker>>

\* retrieve.py:18-23: the loop and the return
retrieve_context_l18 ==
    /\ retriever.pc = "l18"
    /\ LET r == RetrieveLoop(retriever.labels, retriever.metadata, 1, <<>>)
       IN  retriever' = IF r.raised THEN Failed("TypeError")
                        ELSE [retriever EXCEPT !.pc = "returned", !.result = r]
    /\ UNCHANGED <<server, index_file, meta_file, emb, builders, loader, chunker>>

retrieve_context == retrieve_context_l8 \/ retrieve_context_l16 \/ retrieve_context_l18

NextRetrieve == retrieve_context

SpecRetrieve == InitRetrieve /\ [][NextRetrieve]_vars

\* ------------------------------------------------------------ properties
Terminal == {"success", "error"}

\* Task t has executed line 63 and has not yet made its terminal transition
\* (the status write of line 76, 92 or 96).
Executing(t) == tasks[t].pc \notin {"none", "queued", "l77", "l93", "l97", "done"}

\* The handler takes up a request of the given endpoint in this step.
Handles(op) == req.pc = "idle" /\ req'.op = op

\* C1: at most one rebuild task is executing at any time.
C1_AtMostOneRebuild ==
    \A t, u \in Tasks : Executing(t) /\ Executing(u) => t = u

\* C2: a start_rebuild request handled while rebuild_status = running is
\* rejected with 'Rebuild already in progress', schedules no task and leaves
\* status, message, index, metadata and config unchanged.
C2_RunningRejectsRebuild ==
    [][(Handles("rebuild") /\ rebuild_status = "running")
        => /\ req'.pc = "resp"
           /\ req'.code = 400
           /\ req'.detail = "Rebuild already in progress"
           /\ UNCHANGED <<tasks, shared, disk>>]_vars

C2_Witness ==
    /\ req.op = "rebuild" /\ req.pc = "resp"
    /\ req.detail = "Rebuild already in progress"
    /\ rebuild_status = "running"
    /\ \E t \in Tasks : tasks[t].pc = "none"

\* C3 as stated: in a terminal state every start_rebuild request is accepted.
C3_TerminalAlwaysAccepts ==
    [][(Handles("rebuild") /\ rebuild_status \in Terminal)
        => req'.code = 200 /\ req'.detail = "started"]_vars

\* C3 amended: in a terminal state a start_rebuild request is accepted (and
\* its task scheduled) unless the server has no config and the request has
\* no folder path or an empty one; that request is rejected with 'No config
\* found'.
C3_TerminalAcceptsUnlessNoConfig ==
    [][(Handles("rebuild") /\ rebuild_status \in Terminal)
        => IF config = None /\ req'.arg \in {None, Some(<<>>)}
           THEN /\ req'.code = 400
                /\ req'.detail = "No config found. Please provide folder path."
                /\ UNCHANGED tasks
           ELSE /\ req'.code = 200 /\ req'.detail = "started"
                /\ \E t \in Tasks :
                      /\ tasks[t].pc = "none"
                      /\ tasks' = [tasks EXCEPT ![t] = [NoTask EXCEPT !.pc = "queued",
                                                                      !.arg = req'.arg]]]_vars

C3_Witness ==
    /\ req.op = "rebuild" /\ req.pc = "resp" /\ req.code = 200
    /\ rebuild_status \in Terminal
    /\ \E t \in Tasks : tasks[t].pc = "done"
    /\ \E t \in Tasks : tasks[t].pc = "queued"

\* C4: a served query passes retrieve_context an index and a metadata list
\* of the same index generation.
C4_ConsistentSnapshot ==
    (req.op = "chat" /\ req.pc = "l125") => req.idx = req.meta

\* C5: when a rebuild task ends in status error, index and metadata are the
\* values they had when that task started.
C5_ErrorKeepsIndex ==
    [][\A t \in Tasks :
        (tasks[t].pc \in {"l76", "l96"} /\ tasks'[t].pc \in {"l77", "l97"})
            => <<index', metadata'>> = tasks[t].old]_vars

\* C6: a query handled while rebuild_status = running is rejected with 503,
\* index loaded or not, and reads neither state.index nor state.metadata.
C6_RunningRejectsQuery ==
    [][(Handles("chat") /\ rebuild_status = "running")
        => /\ req'.pc = "resp"
           /\ req'.code = 503
           /\ req'.detail = "Index is currently rebuilding. Please wait."
           /\ req'.idx = None /\ req'.meta = None
           /\ UNCHANGED <<tasks, shared, disk>>]_vars

C6_Witness ==
    /\ req.op = "chat" /\ req.pc = "resp" /\ req.code = 503
    /\ rebuild_status = "running"
    /\ index = None

\* C7: a query whose guard of line 121 finds the client or the index absent
\* is answered 500 'not initialized', which differs from the busy answer, and
\* retrieval is never entered with an absent index; also after a failed first
\* rebuild.
C7_NotInitializedRejected ==
    [][/\ (req.op = "chat" /\ req.pc = "l121" /\ req' # req
            /\ (client = None \/ index = None))
          => /\ req'.pc = "resp"
             /\ req'.code = 500
             /\ req'.detail = "RAG system not initialized. Please rebuild index."
             /\ req'.detail # "Index is currently rebuilding. Please wait."
             /\ req'.code # 503
       /\ (req'.op = "chat" /\ req'.pc \in {"l129", "l125"}) => req'.idx # None]_vars

C7_Witness ==
    /\ req.op = "chat" /\ req.pc = "resp" /\ req.code = 500
    /\ req.detail = "RAG system not initialized. Please rebuild index."
    /\ rebuild_status = "error"
    /\ client # None
    /\ index = None


\* C8: load_faiss_index returns (None, None) or an index and a metadata list
\* written by the same build_index call, never the index file of one build
\* with the metadata file of another.
C8_MatchedPair ==
    loader.pc = "returned" =>
        \/ loader.index = None /\ loader.metadata = None
        \/ /\ loader.index # None /\ loader.metadata # None
           /\ Val(loader.index).build = Val(loader.metadata).build

\* The vectors get_embeddings owes for a list of texts: for each text, in
\* order, what the service returned for the text with every newline replaced
\* by a space, as float32 numbers.
Spaced(text) == [k \in 1..Len(text) |-> IF text[k] = "\n" THEN " " ELSE text[k]]

Owed(text, answer) ==
    LET v == Val(Service(answer, Spaced(text)))
    IN  [j \in 1..Len(v) |-> Float32(v[j])]

\* C9: at the moment a build_index call persists (its second file is
\* written), the persisted index and the persisted metadata have the same
\* length, and vector i of the index is the embedding of metadata[i].text.
C9_LockStep ==
    [][\A b \in Builders :
         (builders[b].pc = "i61" /\ builders'[b].pc = "persisted") =>
            /\ index_file' # None
            /\ Val(index_file').build # -1
            /\ LET ix == read_index(Val(index_file').data)
                   md == json_load(Val(meta_file').data)
               IN  /\ ix.ntotal = Len(md)
                   /\ \A i \in 1..Len(md) : Reconstruct(ix, i) = Owed(md[i].text, "ok")]_vars

\* C10: get_embeddings returns exactly len(texts) vectors, vector i the
\* embedding of texts[i] with newlines replaced by spaces, or it raises; it
\* raises whenever the service fails for an item, and then returns nothing.
C10_AllOrNothing ==
    emb.pc \in {"returned", "raised"} =>
        /\ (emb.pc = "raised") = emb.result.raised
        /\ (\E i \in 1..Len(emb.texts) : emb.answers[i] = "fail") =>
              emb.result.raised /\ emb.result.value = <<>>
        /\ ~emb.result.raised =>
              /\ Len(emb.result.value) = Len(emb.texts)
              /\ \A i \in 1..Len(emb.texts) :
                    /\ emb.answers[i] # "fail"
                    /\ emb.result.value[i] = Owed(emb.texts[i], emb.answers[i])

\* C10: a call returned the vectors of three texts, one of them with a
\* newline, in the order of the texts.
C10_Witness ==
    /\ emb.pc = "returned"
    /\ emb.texts = <<(<<"a", "\n">>), (<<"a">>), (<<"\n", "b">>)>>
    /\ emb.result.value = <<(<<321, 16777218>>), (<<97, 16777216>>), (<<718, 16777218>>)>>

\* C11: once a rebuild task has started it runs to completion: from every
\* state with rebuild_status = running the status eventually becomes success
\* or error.
C11_RunsToCompletion == (rebuild_status = "running") ~> (rebuild_status \in Terminal)

\* C12: a rebuild whose scan finds no valid document ends with status error
\* and message 'No valid documents found.', writes neither index file, and
\* leaves in memory the index and metadata loaded when it began, so that a
\* following query is not rejected as busy.
C12_NoDocumentsKeepsIndex ==
    [][\A t \in Tasks :
         /\ (tasks[t].pc = "l76" /\ tasks'[t].pc = "l77") =>
               /\ rebuild_status' = "error"
               /\ <<index', metadata'>> = tasks[t].old
               /\ UNCHANGED <<index_file, meta_file>>
         /\ (tasks[t].pc = "l77" /\ tasks'[t].pc = "done") =>
               /\ rebuild_status' = "error"
               /\ rebuild_message' = "No valid documents found."
               /\ ~ChatBusy'
               /\ UNCHANGED <<index, metadata, index_file, meta_file>>]_vars

\* The chunks the sliding window owes for one document: the spans
\* [s, min(s + chunk_size, len)) for s = 0, stride, 2 * stride, ... < len.
Windows(doc, chunk_size, overlap) ==
    LET len == Len(doc.content)
        stride == chunk_size - overlap
        n == (len + stride - 1) \div stride
    IN  [j \in 1..n |->
            [text |-> SubSeq(doc.content, (j - 1) * stride + 1,
                             Min((j - 1) * stride + chunk_size, len)),
             source |-> doc.path]]

RECURSIVE AllWindows(_, _, _)
AllWindows(docs, chunk_size, overlap) ==
    IF docs = <<>> THEN <<>>
    ELSE Windows(Head(docs), chunk_size, overlap) \o AllWindows(Tail(docs), chunk_size, overlap)

\* The chunks of the document with this path, in the order emitted.
ChunksFrom(path) == SelectSeq(chunker.chunks, LAMBDA c : c.source = path)

\* C13: for 0 <= overlap < chunk_size, chunk_text returns exactly the
\* windows text[s : min(s + chunk_size, len)] for s = 0, stride, 2*stride, ...
\* while s < len, document by document and in that order, and the spans
\* cover every character of every document.
C13_SlidingWindows ==
    chunker.overlap < chunker.chunk_size =>
        /\ Len(chunker.chunks) < ChunkCap
        /\ chunker.pc = "returned" =>
              /\ chunker.chunks = AllWindows(chunker.documents, chunker.chunk_size,
                                             chunker.overlap)
              /\ \A i \in 1..Len(chunker.documents) :
                    \A pos \in 1..Len(chunker.documents[i].content) :
                        \E j \in 1..Len(ChunksFrom(chunker.documents[i].path)) :
                            LET s == (j - 1) * (chunker.chunk_size - chunker.overlap)
                            IN  /\ s < pos
                                /\ pos <= s + Len(ChunksFrom(chunker.documents[i].path)[j].text)

\* C13: 'AAAABBBB' with chunk_size 4 and overlap 2 gave the 4 chunks 'AAAA',
\* 'AABB', 'BBBB', 'BB'.
C13_Witness ==
    /\ chunker.pc = "returned"
    /\ chunker.chunk_size = 4 /\ chunker.overlap = 2
    /\ Len(chunker.documents) = 1
    /\ chunker.documents[1].content = <<"A", "A", "A", "A", "B", "B", "B", "B">>
    /\ [i \in 1..Len(chunker.chunks) |-> chunker.chunks[i].text]
          = <<(<<"A", "A", "A", "A">>), (<<"A", "A", "B", "B">>),
              (<<"B", "B", "B", "B">>), (<<"B", "B">>)>>

\* C14: for 0 < overlap < chunk_size, two consecutive chunks of a document
\* share exactly `overlap` characters (the first ends `overlap` characters
\* after the second begins), unless the second is the final chunk of the
\* document.
C14_ExactOverlap ==
    (chunker.pc = "returned" /\ 0 < chunker.overlap /\ chunker.overlap < chunker.chunk_size) =>
        \A i \in 1..Len(chunker.documents) :
            LET cs == ChunksFrom(chunker.documents[i].path)
                stride == chunker.chunk_size - chunker.overlap
            IN  \A j \in 1..(Len(cs) - 2) :
                    ((j - 1) * stride + Len(cs[j].text)) - j * stride = chunker.overlap

\* C15: with overlap >= chunk_size and a non-empty document, the call
\* terminates (with an error) instead of looping forever.
C15_Terminates ==
    (/\ chunker.pc = "l7" /\ chunker.d = 0
     /\ chunker.overlap >= chunker.chunk_size
     /\ \E i \in 1..Len(chunker.documents) : chunker.documents[i].content # <<>>)
        ~> (chunker.pc \in {"returned", "raised"})

\* C16: for 0 <= overlap < chunk_size, a non-empty document shorter than
\* chunk_size yields exactly one chunk, the whole content.
C16_ShortDocumentOneChunk ==
    (chunker.pc = "returned" /\ chunker.overlap < chunker.chunk_size) =>
        \A i \in 1..Len(chunker.documents) :
            LET doc == chunker.documents[i]
            IN  (doc.content # <<>> /\ Len(doc.content) < chunker.chunk_size) =>
                    ChunksFrom(doc.path) = <<[text |-> doc.content, source |-> doc.path]>>

\* Empty, or white space only.
Blank(content) == \A i \in 1..Len(content) : content[i] \in {" ", "\n", "\t"}

\* C17 as stated: chunk_text yields no chunk for a document whose content is
\* empty or white space only.
C17_BlankDocumentNoChunks ==
    \A i \in 1..Len(chunker.documents) :
        Blank(chunker.documents[i].content) => ChunksFrom(chunker.documents[i].path) = <<>>

\* C17, amended: a file whose content is empty or white space only yields no
\* chunk, because load_files does not make it a document; chunk_text yields
\* no chunk for a document whose content is empty.
C17_BlankFileNoChunks ==
    /\ \A i \in 1..Len(chunker.files) :
          Blank(chunker.files[i].content) =>
              /\ ChunksFrom(chunker.files[i].path) = <<>>
              /\ chunker.pc # "scan" =>
                    \A j \in 1..Len(chunker.documents) :
                        chunker.documents[j].path # chunker.files[i].path
    /\ \A i \in 1..Len(chunker.documents) :
          chunker.documents[i].content = <<>> => ChunksFrom(chunker.documents[i].path) = <<>>

\* C17: a folder with a file of white space only and a file with text was
\* scanned and chunked: all the chunks are from the second file.
C17_Witness ==
    /\ chunker.pc = "returned"
    /\ Len(chunker.files) = 2
    /\ chunker.files[1].content = <<" ", "\n", "\t">>
    /\ chunker.files[2].content = <<"a", "b", "c">>
    /\ chunker.chunks # <<>>
    /\ \A i \in 1..Len(chunker.chunks) : chunker.chunks[i].source = chunker.files[2].path

\* The metadata list of the call (empty for None) and the number of vectors
\* of its index.
MetaList == IF retriever.metadata = None THEN <<>> ELSE Val(retriever.metadata)

NumVectors == IF retriever.index = None THEN 0 ELSE Val(retriever.index).ntotal

\* The chunks at the labels p with 0 <= p < len(metadata), in the order of
\* the labels.
ChunksAtLabels ==
    LET ok == SelectSeq(retriever.labels, LAMBDA p : 0 <= p /\ p < Len(MetaList))
    IN  [i \in 1..Len(ok) |-> MetaList[ok[i] + 1]]

C19_FailureReturnsEmpty ==
    /\ retriever.pc # "raised"
    /\ ~retriever.result.raised
    /\ (/\ retriever.pc = "returned"
        /\ \/ retriever.exc # ""
           \/ retriever.answer # "ok"
           \/ ~retriever.search_ok
           \/ retriever.index = None) => retriever.result.value = <<>>

\* C19: the query vector had another dimension than an index of 2 vectors,
\* and the call returned the empty list.
C19_Witness ==
    /\ retriever.pc = "returned"
    /\ retriever.exc = "AssertionError"
    /\ NumVectors = 2 /\ Len(MetaList) = 2
    /\ retriever.result = Returned(<<>>)

\* The build_index calls begun so far; they ran one after the other when
\* each began with no other call running and all have ended. Latest is the
\* one begun last.
Begun == {b \in Builders : builders[b].pc # "none"}

OneAtATime == \A b \in Begun : builders[b].alone /\ builders[b].pc \in BuildEnded

Latest == CHOOSE b \in Begun : \A c \in Begun : builders[c].nth <= builders[b].nth

\* No build_index call has taken a step since the load began.
NoWriterSinceLoadBegan == loader.seen = [b \in Builders |-> builders[b].pc]

\* C20: with no concurrent writer, load_faiss_index after a successful
\* build_index(chunks) returns a metadata list equal to chunks and an index
\* with the same vectors at the same positions as the one built, so that
\* every search gives the same result on both.
C20_RoundTrip ==
    (/\ loader.pc = "returned"
     /\ NoWriterSinceLoadBegan
     /\ Begun # {} /\ OneAtATime
     /\ builders[Latest].pc = "persisted") =>
        /\ loader.index # None /\ loader.metadata # None
        /\ Val(loader.metadata).data = builders[Latest].chunks
        /\ LET loaded == Val(loader.index).data
               built == Val(builders[Latest].index)
           IN  /\ loaded.d = built.d
               /\ loaded.ntotal = built.ntotal
               /\ loaded.ntotal = Len(builders[Latest].chunks)
               /\ \A i \in 1..built.ntotal : Reconstruct(loaded, i) = Reconstruct(built, i)
               /\ \A q \in {<<0, 16777216>>, <<321, 16777218>>}, k \in 1..(MaxChunks + 1) :
                     Search(loaded, q, k) = Search(built, q, k)

\* C20: two build_index calls ran one after the other with different chunk
\* lists, and a load after the second returned the second's chunks, with
\* their newlines.
C20_Witness ==
    /\ loader.pc = "returned"
    /\ NoWriterSinceLoadBegan
    /\ Cardinality(Begun) = 2 /\ OneAtATime
    /\ \A b \in Begun : builders[b].pc = "persisted"
    /\ \E b \in Begun : builders[b].chunks # builders[Latest].chunks
    /\ Len(builders[Latest].chunks) = 2
    /\ builders[Latest].chunks[1].text = <<"\n", "b">>
    /\ Val(loader.metadata).data = builders[Latest].chunks

\* The changes of rebuild_status the state machine allows.
Allowed ==
    {<<"idle", "running">>, <<"running", "success">>, <<"running", "error">>,
     <<"success", "running">>, <<"error", "running">>}

\* C21: rebuild_status changes only along idle -> running, running ->
\* success, running -> error, success -> running and error -> running: never
\* back to idle, and never from one terminal value to the other.
C21_AllowedTransitions ==
    [][rebuild_status' # rebuild_status
        => <<rebuild_status, rebuild_status'>> \in Allowed]_vars

\* The rebuild accepted last, and the positions of a task that has made its
\* terminal transition.
Accepted == {t \in Tasks : tasks[t].pc # "none"}

LastAccepted == CHOOSE t \in Accepted : \A u \in Accepted : u <= t

Ended == {"l77", "l93", "l97", "done"}

\* C22: a poll that reads rebuild_status after trigger_rebuild has answered
\* 'started' reads running, or the terminal status of that new rebuild: never
\* idle, and never a terminal status while the new rebuild has not ended.
C22_StartedMeansRunning ==
    (req.op = "status" /\ req.pc = "l114" /\ Accepted # {}) =>
        \/ req.status = "running"
        \/ req.status \in Terminal /\ tasks[LastAccepted].pc \in Ended

\* C23: when a rebuild task sets rebuild_status to success (line 92), the
\* index and the metadata in memory are the two files persisted by that
\* task's own build_index call.
C23_SuccessMeansFreshPair ==
    [][\A t \in Tasks :
         (tasks[t].pc = "l92" /\ tasks'[t].pc = "l93") =>
            /\ rebuild_status' = "success"
            /\ index' # None /\ metadata' # None
            /\ Val(index').build = t
            /\ Val(metadata').build = t]_vars

\* The call has embedded every chunk and built the index in memory.
PairReady(b) ==
    /\ ~builders[b].failed
    /\ builders[b].chunks # <<>>
    /\ builders[b].requests = Len(builders[b].chunks)
    /\ builders[b].index # None
    /\ Val(builders[b].index).ntotal = Len(builders[b].chunks)

\* C24: build_index writes a file only once every chunk has been embedded
\* and the index is built in memory; a call for which the embedding service
\* fails at an item raises and leaves both files as they were.
C24_PersistAfterEmbedding ==
    [][\A b \in Builders :
         /\ builders'[b].failed => builders'[b].pc = "raised"
         /\ (builders[b].pc = "none" /\ builders'[b].failed)
               => UNCHANGED <<index_file, meta_file>>
         /\ (builders'[b] # builders[b] /\ index_file' # index_file)
               => builders[b].pc = "i58" /\ PairReady(b)
         /\ (builders'[b] # builders[b] /\ meta_file' # meta_file)
               => builders[b].pc = "i61" /\ PairReady(b)]_vars

\* C24: after a build that persisted both files, a build whose second item
\* failed to embed has raised, and both files are still those of the first.
C24_Witness ==
    /\ \E b, c \in Builders :
          /\ builders[b].pc = "persisted" /\ builders[b].nth = 1
          /\ builders[c].pc = "raised" /\ builders[c].nth = 2
          /\ builders[c].failed /\ builders[c].requests = 2
          /\ index_file = Some(Written(b, write_index(Val(builders[b].index))))
          /\ meta_file = Some(Written(b, json_dump(builders[b].chunks)))

\* C28: build_index called with an empty chunk list prints that there is
\* nothing to index and returns: it raises nothing, makes no request to the
\* embedding service, builds no index and leaves both files as they were.
C28_EmptyListReturns ==
    [][\A b \in Builders :
         (builders[b].pc = "none" /\ builders'[b].pc # "none" /\ builders'[b].empty) =>
            /\ builders'[b].pc = "returned"
            /\ builders'[b].report = "No content found to index."
            /\ builders'[b].requests = 0
            /\ builders'[b].index = None
            /\ UNCHANGED <<index_file, meta_file>>]_vars

\* C28: after a build that persisted both files, a build called with the
\* empty list has returned, and both files are still those of the first.
C28_Witness ==
    /\ \E b, c \in Builders :
          /\ builders[b].pc = "persisted" /\ builders[b].nth = 1
          /\ builders[c].pc = "returned" /\ builders[c].nth = 2
          /\ builders[c].empty /\ builders[c].requests = 0
          /\ index_file = Some(Written(b, write_index(Val(builders[b].index))))
          /\ meta_file = Some(Written(b, json_dump(builders[b].chunks)))

\* A step of a request handler: the handler thread moves, no task does.
HandlerStep == req' # req

\* C25: the steps of chat_endpoint and of get_rebuild_status, a rejected
\* start_rebuild and the sending of a response leave rebuild_status,
\* rebuild_message, index, metadata and config unchanged; these change only
\* in steps of a rebuild task.
C25_HandlersOnlyRead ==
    [][/\ (HandlerStep /\ ~(req'.op = "rebuild" /\ req'.code = 200))
          => UNCHANGED <<rebuild_status, rebuild_message, index, metadata, config>>
       /\ <<rebuild_status, rebuild_message, index, metadata, config>>'
             # <<rebuild_status, rebuild_message, index, metadata, config>>
          => \E t \in Tasks : tasks'[t] # tasks[t] /\ tasks[t].pc \notin {"none", "done"}]_vars

\* C25: a poll answered during a rebuild returned the status and the message
\* of that moment, and both are still in place.
C25_Witness ==
    /\ req.op = "status" /\ req.pc = "resp"
    /\ req.status = "running" /\ req.message = "Indexing chunks..."
    /\ rebuild_status = "running" /\ rebuild_message = "Indexing chunks..."
    /\ index # None

\* The text is the piece of the content that begins at offset s.
CutAt(text, content, s) ==
    /\ s + Len(text) <= Len(content)
    /\ text = SubSeq(content, s + 1, s + Len(text))

\* The number of the document with this path in the documents argument (0
\* when there is none).
DocIndex(path) ==
    IF \E i \in 1..Len(chunker.documents) : chunker.documents[i].path = path
    THEN CHOOSE i \in 1..Len(chunker.documents) : chunker.documents[i].path = path
    ELSE 0

\* C26: in the list chunk_text returns, every chunk has the path of a
\* document as source and a text of 1 to chunk_size characters cut from that
\* document alone; the chunks are in the order of the documents and, within
\* a document, at increasing start offsets.
C26_ChunksOfOneDocumentInOrder ==
    chunker.pc = "returned" =>
        /\ \A n \in 1..Len(chunker.chunks) :
              /\ DocIndex(chunker.chunks[n].source) # 0
              /\ 1 <= Len(chunker.chunks[n].text)
              /\ Len(chunker.chunks[n].text) <= chunker.chunk_size
              /\ \A m \in (n + 1)..Len(chunker.chunks) :
                    DocIndex(chunker.chunks[n].source) <= DocIndex(chunker.chunks[m].source)
        /\ \A i \in 1..Len(chunker.documents) :
              LET content == chunker.documents[i].content
                  cs == ChunksFrom(chunker.documents[i].path)
                  offsets == 0..(Len(content) - 1)
              IN  /\ \A j \in 1..Len(cs) : \E s \in offsets : CutAt(cs[j].text, content, s)
                  /\ \A j \in 1..(Len(cs) - 1) :
                        \E s1, s2 \in offsets :
                            /\ s1 < s2
                            /\ CutAt(cs[j].text, content, s1)
                            /\ CutAt(cs[j + 1].text, content, s2)

\* C26: two documents were chunked with chunk_size 2 and overlap 1: the
\* three chunks of 'abc' come first, then the eight chunks of 'AAAABBBB'.
C26_Witness ==
    /\ chunker.pc = "returned"
    /\ chunker.chunk_size = 2 /\ chunker.overlap = 1
    /\ Len(chunker.documents) = 2
    /\ chunker.documents[1].content = <<"a", "b", "c">>
    /\ chunker.documents[2].content = <<"A", "A", "A", "A", "B", "B", "B", "B">>
    /\ Len(chunker.chunks) = 11
    /\ chunker.chunks[3] = [text |-> <<"c">>, source |-> chunker.documents[1].path]
    /\ chunker.chunks[4] = [text |-> <<"A", "A">>, source |-> chunker.documents[2].path]

\* The numbered step of run_rebuild_task a position belongs to: 0 the start
\* (lines 63-64), 1 the config update (66-70), 2 the scan (72-78), 3 the
\* chunking (80-82), 4 the indexing (84-86), 5 the reload and the success
\* (88-93); 6 stands for the exception handler and the end.
StepOf(pc) ==
    CASE pc \in {"none", "queued", "l64"} -> 0
      [] pc \in {"l67", "l70"} -> 1
      [] pc \in {"l73", "l74", "l76", "l77"} -> 2
      [] pc \in {"l81", "l82", "c12"} -> 3
      [] pc \in {"l86", "i61"} -> 4
      [] pc \in {"l89", "i69", "i72", "i74", "l90", "l90m", "l92", "l93"} -> 5
      [] OTHER -> 6

\* The progress messages, by the step they announce.
StepOfMessage(m) ==
    CASE m = "Starting rebuild..." -> 0
      [] m = "Updated config to: folder_path" -> 1
      [] m = "Scanning files..." -> 2
      [] m = "Chunking documents..." -> 3
      [] m = "Indexing chunks..." -> 4
      [] m = "Reloading index..." -> 5
      [] OTHER -> 6

Progress ==
    {"Starting rebuild...", "Updated config to: folder_path", "Scanning files...",
     "Chunking documents...", "Indexing chunks...", "Reloading index..."}

\* C27: a rebuild task goes through its steps in the order scan, chunking,
\* indexing, reload and sets the message of a step between the positions of
\* the step before and those of the step after, so the messages one task
\* sets are in that order and never go back; it
\* sets a terminal status last: success after the reload, error after the
\* scan found nothing or from the exception handler, and no progress message
\* after that.
C27_MessagesInOrder ==
    [][\A t \in Tasks :
         tasks'[t] # tasks[t] =>
            /\ StepOf(tasks[t].pc) <= StepOf(tasks'[t].pc)
            /\ (rebuild_message' # rebuild_message /\ rebuild_message' \in Progress) =>
                  /\ tasks[t].pc \notin Ended
                  /\ StepOf(tasks[t].pc) <= StepOfMessage(rebuild_message')
                  /\ StepOfMessage(rebuild_message') <= StepOf(tasks'[t].pc)
            /\ (rebuild_status' # rebuild_status /\ rebuild_status' = "success") =>
                  tasks[t].pc = "l92" /\ tasks'[t].pc = "l93"
            /\ (rebuild_status' # rebuild_status /\ rebuild_status' = "error") =>
                  tasks[t].pc \in {"l76", "l96"} /\ tasks'[t].pc \in Ended]_vars

\* C27: the only rebuild accepted has set success, and the message is still
\* the one of its last step.
C27_Witness ==
    /\ \E t \in Tasks : tasks[t].pc = "l93" /\ \A u \in Tasks \ {t} : tasks[u].pc = "none"
    /\ rebuild_status = "success"
    /\ rebuild_message = "Reloading index..."

\* The messages run_rebuild_task sets at line 97.
ErrorMessages ==
    {ErrMsg(e) : e \in {"AttributeError", "ValueError", "APIError", "OSError",
                        "MemoryError", "ReadError"}}

\* C29: the (status, message) pair a poll returns is consistent: success
\* comes with 'Index rebuilt successfully!' only, and error with 'No valid
\* documents found.' or with a message that starts with 'Error: ' only.
C29_ConsistentPoll ==
    (req.op = "status" /\ req.pc = "resp") =>
        /\ req.status = "success" => req.message = "Index rebuilt successfully!"
        /\ req.status = "error" =>
              req.message \in {"No valid documents found."} \cup ErrorMessages

\* C30: while a rebuild task is between line 63 and its terminal transition,
\* rebuild_status is running.
C30_RunningWhileExecuting ==
    \A t \in Tasks : Executing(t) => rebuild_status = "running"

\* The task was given a folder path that is not blank.
PathGiven(t) == Truthy(tasks[t].arg) /\ Strip(Val(tasks[t].arg)) # <<>>

\* C31: a rebuild task given a non-blank path sets the config's folder_path
\* to the stripped path and saves it before it scans; the scan is of the
\* configured folder; when the task ends in error the config and rag.yaml
\* are left as they are (the config changes only where a task sets a given
\* path) and index and metadata are those of the moment the task began.
C31_PathKeptAfterError ==
    [][/\ \A t \in Tasks :
            /\ (tasks[t].pc = "l67" /\ tasks'[t].pc # "l67" /\ PathGiven(t) /\ config # None) =>
                  /\ config' # None
                  /\ Val(config').folder_path = Strip(Val(tasks[t].arg))
                  /\ \/ tasks'[t].pc = "l70" /\ rag_yaml' = Some(Strip(Val(tasks[t].arg)))
                     \/ tasks'[t].pc = "l96"
            /\ (tasks[t].pc = "l74" /\ tasks'[t].pc # "l74" /\ config # None) =>
                  tasks'[t].pc = IF ~IsDir(Val(config).folder_path) THEN "l96"
                                 ELSE IF ~HasDocs(Val(config).folder_path) THEN "l76"
                                 ELSE "l81"
            /\ (tasks[t].pc \in {"l76", "l96"} /\ tasks'[t].pc \in {"l77", "l97"}) =>
                  /\ UNCHANGED <<config, rag_yaml>>
                  /\ <<index', metadata'>> = tasks[t].old
       /\ config' # config => \E t \in Tasks : tasks[t].pc = "l67" /\ PathGiven(t)]_vars

\* The positions of a task in a server without config: it fails at line 68
\* or at line 74.
NoConfigPositions == {"none", "queued", "l64", "l67", "l73", "l74", "l96", "l97", "done"}

\* C32: in a server started without a config (state.config is None, and
\* stays None), a start_rebuild without a folder path is rejected and
\* schedules nothing, an accepted start_rebuild carries a folder path, its
\* task gets no further than the scan and ends through the exception
\* handler in status error (the status is error whenever every accepted
\* rebuild has ended), and no step changes config, index or metadata or
\* sets status success.
C32_NoConfigNeverSucceeds ==
    [][config = None =>
        /\ UNCHANGED <<config, index, metadata>>
        /\ index = None /\ metadata = None
        /\ rebuild_status' # "success"
        /\ (/\ \E t \in Tasks : tasks[t].pc = "done"
            /\ \A t \in Tasks : tasks[t].pc \in {"none", "done"}) => rebuild_status = "error"
        /\ Handles("rebuild") =>
              /\ req'.arg \in {None, Some(<<>>)} =>
                    /\ req'.code = 400
                    /\ rebuild_status # "running" =>
                          req'.detail = "No config found. Please provide folder path."
                    /\ UNCHANGED tasks
              /\ req'.code = 200 => Truthy(req'.arg)
        /\ \A t \in Tasks :
              /\ tasks'[t].pc \in NoConfigPositions
              /\ (tasks[t].pc # "done" /\ tasks'[t].pc = "done") =>
                    /\ tasks[t].pc = "l97"
                    /\ rebuild_message' = ErrMsg("AttributeError")
              /\ (tasks[t].pc = "l96" /\ tasks'[t].pc = "l97") => rebuild_status' = "error"]_vars

\* C32: in a server without config a rebuild with a folder path was accepted
\* and has ended in error, and a rebuild without a path is now rejected.
C32_Witness ==
    /\ config = None /\ index = None /\ metadata = None
    /\ \E t \in Tasks : tasks[t].pc = "done"
    /\ rebuild_status = "error"
    /\ rebuild_message = ErrMsg("AttributeError")
    /\ req.op = "rebuild" /\ req.pc = "resp" /\ req.arg = None
    /\ req.code = 400 /\ req.detail = "No config found. Please provide folder path."
====
